---- MODULE Spec2Model ----
(***************************************************************************)
(* A model of the audit-application utilities:                             *)
(*   - the same-domain link crawler (audit-lighthouse/crawl-urls.mjs),     *)
(*   - the redirect auditor (audit-redirect-file/audit-redirect.js),       *)
(*   - the pathname filters of the crawler (isValidUrl, cleanPathname,     *)
(*     isValidPathname),                                                   *)
(*   - the sitemap harvester (collectAllUrls).                             *)
(*                                                                         *)
(* Strings are sequences of tokens.  A token is one character, except that *)
(* a protocol ("https:") and a host name ("example.com") are one token     *)
(* each; neither holds a character any check of the code looks for.  Path  *)
(* names are spelled character by character.  The link universe holds no   *)
(* query, fragment, port or dot segment.                                   *)
(***************************************************************************)
EXTENDS Integers, Sequences, FiniteSets, TLC

VARIABLES
    \* crawlWebsite: the arguments and the server the run talks to
    startUrl, maxPages, maxDepth, site,
    \* crawlWebsite: the locals
    visited, toVisit, discoveredUrls, errors, pagesProcessed,
    \* crawlWebsite: the control state (position of the loop, the batch, its tasks)
    pc, currentBatch, task,
    \* crawlWebsite: history (the calls of fetchPage, the tasks that ended their try block)
    fetchLog, completed,
    \* audit-redirect.js: the globals and the position of auditRedirects
    redirects, failedRedirects, rpc, rowIdx, firstStatus, observed,
    \* crawl-urls.mjs, one candidate path through the filters: the path, the
    \* position, the verdict of isValidUrl, the result of cleanPathname and the
    \* verdict of isValidPathname
    candidate, fpc, accepted, cleaned, keptPath,
    \* collectAllUrls: the server, the result of getRobotsSitemaps, the locals,
    \* the position, the sitemap in hand, and history (the calls of fetchText)
    sitemapSite, robotsSitemaps, queue, seenSitemaps, urls, processedCount, spc, sitemapUrl,
    sitemapFetches

crawlVars == <<startUrl, maxPages, maxDepth, site, visited, toVisit, discoveredUrls,
               errors, pagesProcessed, pc, currentBatch, task, fetchLog, completed>>
redirectVars == <<redirects, failedRedirects, rpc, rowIdx, firstStatus, observed>>
filterVars == <<candidate, fpc, accepted, cleaned, keptPath>>
sitemapVars == <<sitemapSite, robotsSitemaps, queue, seenSitemaps, urls, processedCount,
                 spc, sitemapUrl, sitemapFetches>>
vars == <<crawlVars, redirectVars, filterVars, sitemapVars>>

\* no candidate is in the filters, no sitemap walk runs
FilterIdle ==
    /\ candidate = <<>> /\ fpc = "idle" /\ accepted = FALSE /\ cleaned = <<>>
    /\ keptPath = FALSE
SitemapIdle ==
    /\ sitemapSite = <<>> /\ robotsSitemaps = <<>> /\ queue = <<>>
    /\ seenSitemaps = {} /\ urls = {}
    /\ processedCount = 0 /\ spc = "idle" /\ sitemapUrl = <<>> /\ sitemapFetches = <<>>

----------------------------------------------------------------------------
(* Bounds of the model *)

\* maxPages is drawn from 0..MaxPagesBound
MaxPagesBound == 4
\* maxDepth is drawn from 0..MaxDepthBound
MaxDepthBound == 2
\* number of pages the hub page of the wide site links to
NumWide == 11
\* number of rows of the redirect sheet
MaxRows == 2
\* length of the generated candidate paths, after their leading '/'
MaxCandidateLen == 3
\* number of <loc> entries of a sitemap index
MaxLocs == 2

----------------------------------------------------------------------------
(* Strings *)

Range(s) == {s[i] : i \in 1..Len(s)}

\* String.prototype.includes
Includes(s, sub) ==
    \E i \in 1..(Len(s) - Len(sub) + 1) : SubSeq(s, i, i + Len(sub) - 1) = sub

\* String.prototype.startsWith
StartsWith(s, pre) == Len(s) >= Len(pre) /\ SubSeq(s, 1, Len(pre)) = pre

\* (s.match(/\//g) || []).length
RECURSIVE CountSlashes(_)
CountSlashes(s) ==
    IF s = <<>> THEN 0
    ELSE (IF Head(s) = "/" THEN 1 ELSE 0) + CountSlashes(Tail(s))

\* insertion into a JavaScript Set, which keeps insertion order: Set.prototype.add
SetAdd(s, x) == IF x \in Range(s) THEN s ELSE Append(s, x)

----------------------------------------------------------------------------
(* The WHATWG URL class, as far as the crawler uses it *)

Protocols == {"https:", "http:"}
HostNames == {"example.com", "other.com"}

\* the path state of the URL parser percent-encodes '<', '>' and ' '
RECURSIVE PercentEncode(_)
PercentEncode(p) ==
    IF p = <<>> THEN <<>>
    ELSE (CASE Head(p) = "<" -> <<"%", "3", "C">>
            [] Head(p) = ">" -> <<"%", "3", "E">>
            [] Head(p) = " " -> <<"%", "2", "0">>
            [] OTHER -> <<Head(p)>>) \o PercentEncode(Tail(p))

\* whether new URL(s) returns (TRUE) or throws (FALSE)
UrlParses(s) ==
    /\ Len(s) >= 4
    /\ s[1] \in Protocols
    /\ s[2] = "/" /\ s[3] = "/"
    /\ s[4] \in HostNames
    /\ (Len(s) = 4 \/ s[5] = "/")

\* new URL(s), for s with UrlParses(s)
NewURL(s) ==
    [protocol |-> s[1],
     hostname |-> s[4],
     pathname |-> IF Len(s) = 4 THEN <<"/">> ELSE PercentEncode(SubSeq(s, 5, Len(s)))]

\* URL.prototype.href and URL.prototype.origin
Href(u) == <<u.protocol, "/", "/", u.hostname>> \o u.pathname
Origin(u) == <<u.protocol, "/", "/", u.hostname>>

\* the directory of a path: the path up to and including its last '/'
RECURSIVE DirOf(_)
DirOf(p) ==
    IF p = <<>> THEN <<"/">>
    ELSE IF p[Len(p)] = "/" THEN p
    ELSE DirOf(SubSeq(p, 1, Len(p) - 1))

----------------------------------------------------------------------------
(* crawl-urls.mjs: the pure helpers *)

\* null, and every falsy string
Null == <<>>

HttpPrefix == <<"http:", "/", "/">>
HttpsPrefix == <<"https:", "/", "/">>

\* new URL(s).href, or null when the constructor throws
HrefOrNull(s) == IF UrlParses(s) THEN Href(NewURL(s)) ELSE Null

normalizeUrl(url, baseUrl) ==
    IF url = Null THEN Null
    ELSE IF StartsWith(url, HttpPrefix) \/ StartsWith(url, HttpsPrefix)
        THEN HrefOrNull(url)
    ELSE IF StartsWith(url, <<"/", "/">>)
        THEN HrefOrNull(<<baseUrl.protocol>> \o url)
    ELSE IF StartsWith(url, <<"/">>)
        THEN HrefOrNull(Origin(baseUrl) \o url)
    ELSE HrefOrNull(Origin(baseUrl) \o DirOf(baseUrl.pathname) \o url)

\* Check if URL belongs to the same domain
\* (variant first: the host names are not compared)
isSameDomainAnyHost(url, baseUrl) == UrlParses(url)

isSameDomain(url, baseUrl) ==
    UrlParses(url) /\ NewURL(url).hostname = baseUrl.hostname

MaxPathnameLength == 200

\* pathname.match(/^\/[^\/]*[<>]/)
LeadingSegmentHasTag(pathname) ==
    /\ Len(pathname) >= 1 /\ pathname[1] = "/"
    /\ \E i \in 2..Len(pathname) :
          /\ pathname[i] \in {"<", ">"}
          /\ \A j \in 2..(i - 1) : pathname[j] # "/"

\* Validate if URL looks like a real URL path
\* (variant first: the test of consecutive '%' is left out)
isValidUrlWithoutPercentRule(url) ==
    IF ~UrlParses(url) THEN FALSE
    ELSE LET pathname == NewURL(url).pathname IN
        /\ ~(\/ Includes(pathname, <<"%", "3", "E">>)
             \/ Includes(pathname, <<"%", "3", "C">>)
             \/ Includes(pathname, <<"%", "2", "0">>))
        /\ ~(Includes(pathname, <<"<">>) \/ Includes(pathname, <<">">>))
        /\ ~LeadingSegmentHasTag(pathname)
        /\ ~(\/ Includes(pathname, <<"c", "l", "a", "s", "s", "=">>)
             \/ Includes(pathname, <<"i", "d", "=">>)
             \/ Includes(pathname, <<"s", "t", "y", "l", "e", "=">>))
        /\ ~(Len(pathname) > MaxPathnameLength)

isValidUrl(url) ==
    IF ~UrlParses(url) THEN FALSE
    ELSE LET pathname == NewURL(url).pathname IN
        /\ ~(\/ Includes(pathname, <<"%", "3", "E">>)
             \/ Includes(pathname, <<"%", "3", "C">>)
             \/ Includes(pathname, <<"%", "2", "0">>))
        /\ ~(Includes(pathname, <<"<">>) \/ Includes(pathname, <<">">>))
        /\ ~LeadingSegmentHasTag(pathname)
        /\ ~(\/ Includes(pathname, <<"c", "l", "a", "s", "s", "=">>)
             \/ Includes(pathname, <<"i", "d", "=">>)
             \/ Includes(pathname, <<"s", "t", "y", "l", "e", "=">>))
        /\ ~(Len(pathname) > MaxPathnameLength)
        /\ ~Includes(pathname, <<"%", "%">>)

\* An HTML text is modelled by what the five patterns of extractUrls capture in
\* it (match[1] of each match, in order of appearance): the targets of <a href>,
\* <img src>, <form action>, the quoted document names, the data- attributes.
Html(href, src, action, js, data) ==
    [href |-> href, src |-> src, action |-> action, js |-> js, data |-> data]

\* the content of a JavaScript Set to which the members of s are added in
\* order: each value stays where it was first added
InsertionOrder(s) ==
    LET indexed == [i \in 1..Len(s) |-> <<i, s[i]>>]
        First(p) == \A j \in 1..(p[1] - 1) : s[j] # p[2]
        firsts == SelectSeq(indexed, First)
    IN [i \in 1..Len(firsts) |-> firsts[i][2]]

\* The five forEach of extractUrls add to one Set, pattern after pattern: each
\* match is normalized and added when it passes the three tests.
extractUrls(html, baseUrl) ==
    LET matches == html.href \o html.src \o html.action \o html.js \o html.data
        normalized == [i \in 1..Len(matches) |-> normalizeUrl(matches[i], baseUrl)]
        Kept(url) == url # Null /\ isSameDomain(url, baseUrl) /\ isValidUrl(url)
    IN InsertionOrder(SelectSeq(normalized, Kept))

\* (url.match(/\//g) || []).length - 2
\* (variant first: one more slash is taken off)
UrlDepthOffByOne(url) == CountSlashes(url) - 3

UrlDepth(url) == CountSlashes(url) - 2

----------------------------------------------------------------------------
(* The web server a crawl talks to: what fetch(url) meets *)

BatchSize == 10

Letters == <<"a", "b", "c", "d", "e", "f", "g", "h", "i", "j", "k", "l", "m">>

\* the pages of the small sites
PageA ==
    Html(<< <<"/", "a">>, <<"b">>, <<"http:", "/", "/", "other.com", "/", "x">> >>,
         << <<"/", "a", "<", "b">> >>,
         <<>>, <<>>, <<>>)
PageB ==
    Html(<< <<"/">>, <<"/", "a", "/", "b">> >>,
         <<>>,
         << <<"/", "/", "other.com", "/", "y">> >>,
         << <<"https:", "/", "/", "example.com", "/", "a">> >>,
         << <<"/", "a", "%", "%", "b">>, <<"https:", "/", "/">> >>)
EmptyPage == Html(<<>>, <<>>, <<>>, <<>>, <<>>)

\* the pages of the wide site: a hub linking to NumWide pages, each linking back
WideHub == Html([i \in 1..NumWide |-> <<"/", Letters[i]>>], <<>>, <<>>, <<>>, <<>>)
WideLeaf == Html(<< <<"/">>, <<"/", "a">> >>, <<>>, <<>>, <<>>, <<>>)

HtmlResponse(html) == [ok |-> TRUE, status |-> 200, contentType |-> "text/html", html |-> html]

\* what the server answers, by name
Response(id) ==
    CASE id = "pageA" -> HtmlResponse(PageA)
      [] id = "pageB" -> HtmlResponse(PageB)
      [] id = "empty" -> HtmlResponse(EmptyPage)
      [] id = "hub" -> HtmlResponse(WideHub)
      [] id = "leaf" -> HtmlResponse(WideLeaf)
      [] id = "pdf" -> [ok |-> TRUE, status |-> 200, contentType |-> "application/pdf",
                        html |-> EmptyPage]
      [] OTHER -> [ok |-> FALSE, status |-> 500, contentType |-> "text/html",
                   html |-> EmptyPage]

\* the paths the small sites serve, and the answers they may give
SitePaths == {<<"/">>, <<"/", "a">>, <<"/", "b">>, <<"/", "a", "/", "b">>}
SiteResponses == {"pageA", "pageB", "pdf", "broken"}
Sites == [SitePaths -> SiteResponses]

WidePaths == {<<"/">>} \cup {<<"/", Letters[i]>> : i \in 1..NumWide}
WideSite ==
    [p \in WidePaths |->
        IF p = <<"/">> THEN "hub" ELSE IF p = <<"/", "b">> THEN "broken" ELSE "leaf"]

\* the seeds main() can pass: a string that starts with http:// or https:// and parses
Seeds == { <<"https:", "/", "/", "example.com">>,
           <<"https:", "/", "/", "example.com", "/", "a">> }

\* the response to the request fetch(url) sends
ServerResponse(url) ==
    LET path == NewURL(url).pathname IN
    IF path \in DOMAIN site THEN Response(site[path]) ELSE Response("missing")

\* fetchPage(url): the error it throws, or Null when it returns response.text()
FetchError(url) ==
    LET r == ServerResponse(url) IN
    IF ~r.ok THEN <<"Failed to fetch ", url, "HTTP ", r.status>>
    ELSE IF r.contentType # "text/html"
        THEN <<"Failed to fetch ", url, "Not HTML content: ", r.contentType>>
    ELSE Null

fetchPage(url) == ServerResponse(url).html

\* extractUrls on every page a server of the model holds, for every seed:
\* the value of extractUrls(html, new URL(seed)), computed once
ResponseNames == {"pageA", "pageB", "empty", "hub", "leaf", "pdf", "broken", "missing"}
ExtractedUrls ==
    [html \in {Response(id).html : id \in ResponseNames}, seed \in Seeds |->
        extractUrls(html, NewURL(seed))]

----------------------------------------------------------------------------
(* crawl-urls.mjs: crawlWebsite *)

Min(a, b) == IF a < b THEN a ELSE b

\* the redirect auditor does not run during a crawl
RedirectIdle ==
    /\ redirects = <<>> /\ failedRedirects = <<>> /\ rpc = "idle"
    /\ rowIdx = 0 /\ firstStatus = 0 /\ observed = <<>>

\* the state after lines 183-190, for the arguments and the server given
CrawlStart(seed, pages, depth, server) ==
    /\ startUrl = seed /\ maxPages = pages /\ maxDepth = depth /\ site = server
    /\ visited = {}
    /\ toVisit = <<seed>>
    /\ discoveredUrls = {}
    /\ errors = <<>>
    /\ pagesProcessed = 0
    /\ pc = "loop" /\ currentBatch = <<>> /\ task = <<>>
    /\ fetchLog = <<>> /\ completed = {}
    /\ RedirectIdle /\ FilterIdle /\ SitemapIdle

Init ==
    \E seed \in Seeds, pages \in 0..MaxPagesBound, depth \in 0..MaxDepthBound,
       server \in Sites :
        CrawlStart(seed, pages, depth, server)

baseUrl == NewURL(startUrl)

\* the condition of the while loop
\* (variants first: the frontier is not tested; the budget is tested with <=)
LoopConditionBudgetOnly == pagesProcessed < maxPages

LoopConditionInclusive == Len(toVisit) > 0 /\ pagesProcessed <= maxPages

LoopCondition == Len(toVisit) > 0 /\ pagesProcessed < maxPages

\* The callback of currentBatch.map up to its first await, which runs inside
\* map: acc holds visited, pagesProcessed, the calls of fetchPage and the tasks.
\* (MapTaskNoMark is the variant without the visited.add of line 202.)
MapTaskNoMark(acc, url) ==
    IF url \in acc.visited
    THEN [acc EXCEPT !.task = (url :> "settled") @@ acc.task]
    ELSE [acc EXCEPT !.pagesProcessed = @ + 1,
                     !.fetchLog = Append(@, url),
                     !.task = (url :> "fetching") @@ acc.task]

MapTask(acc, url) ==
    IF url \in acc.visited
    THEN [acc EXCEPT !.task = (url :> "settled") @@ acc.task]
    ELSE [acc EXCEPT !.visited = @ \cup {url},
                     !.pagesProcessed = @ + 1,
                     !.fetchLog = Append(@, url),
                     !.task = (url :> "fetching") @@ acc.task]

RECURSIVE MapTasks(_, _)
MapTasks(acc, batch) ==
    IF batch = <<>> THEN acc ELSE MapTasks(MapTask(acc, Head(batch)), Tail(batch))

\* One turn of the loop up to await Promise.all: the batch is sliced off the
\* frontier and every task runs to its first await.
StartBatch ==
    /\ pc = "loop"
    /\ LoopCondition
    /\ LET n == Min(BatchSize, Len(toVisit))
           batch == SubSeq(toVisit, 1, n)
           acc == MapTasks([visited |-> visited, pagesProcessed |-> pagesProcessed,
                            fetchLog |-> fetchLog, task |-> <<>>], batch)
       IN /\ currentBatch' = batch
          /\ toVisit' = SubSeq(toVisit, n + 1, Len(toVisit))
          /\ visited' = acc.visited
          /\ pagesProcessed' = acc.pagesProcessed
          /\ fetchLog' = acc.fetchLog
          /\ task' = acc.task
    /\ pc' = "await"
    /\ UNCHANGED <<startUrl, maxPages, maxDepth, site, discoveredUrls, errors, completed>>
    /\ UNCHANGED <<redirectVars, filterVars, sitemapVars>>

\* the test of line 218, for a URL found on the page of url
\* (variant first: visited is not tested)
ShouldEnqueueIgnoringVisited(url, foundUrl) == UrlDepth(url) < maxDepth

ShouldEnqueue(url, foundUrl) == UrlDepth(url) < maxDepth /\ foundUrl \notin visited

\* the frontier after foundUrls.forEach: the found URLs that pass the test are
\* added to the Set toVisit in order (visited does not change meanwhile)
EnqueueAll(frontier, url, foundUrls) ==
    LET Passes(foundUrl) == ShouldEnqueue(url, foundUrl)
    IN InsertionOrder(frontier \o SelectSeq(foundUrls, Passes))

\* fetchPage(url) returns: the task runs from line 208 to the await of line 224
FetchResolve(url) ==
    /\ pc = "await"
    /\ url \in DOMAIN task /\ task[url] = "fetching"
    /\ FetchError(url) = Null
    /\ LET foundUrls == ExtractedUrls[fetchPage(url), startUrl]
       IN /\ discoveredUrls' = discoveredUrls \cup Range(foundUrls)
          /\ toVisit' = EnqueueAll(toVisit, url, foundUrls)
    /\ task' = [task EXCEPT ![url] = "delay"]
    /\ UNCHANGED <<startUrl, maxPages, maxDepth, site, visited, errors, pagesProcessed,
                   pc, currentBatch, fetchLog, completed>>
    /\ UNCHANGED <<redirectVars, filterVars, sitemapVars>>

\* the catch block of the task: errors.push({ url, error: error.message })
\* (variant first: the error is swallowed)
RecordErrorDropped(errs, url, message) == errs

RecordError(errs, url, message) == Append(errs, [url |-> url, error |-> message])

\* fetchPage(url) throws: the task runs its catch block and ends
\* (variant first: the catch block puts the URL back on the frontier)
FetchRejectRequeues(url) ==
    /\ pc = "await"
    /\ url \in DOMAIN task /\ task[url] = "fetching"
    /\ FetchError(url) # Null
    /\ errors' = RecordError(errors, url, FetchError(url))
    /\ toVisit' = SetAdd(toVisit, url)
    /\ task' = [task EXCEPT ![url] = "settled"]
    /\ UNCHANGED <<startUrl, maxPages, maxDepth, site, visited, discoveredUrls,
                   pagesProcessed, pc, currentBatch, fetchLog, completed>>
    /\ UNCHANGED <<redirectVars, filterVars, sitemapVars>>

FetchReject(url) ==
    /\ pc = "await"
    /\ url \in DOMAIN task /\ task[url] = "fetching"
    /\ FetchError(url) # Null
    /\ errors' = RecordError(errors, url, FetchError(url))
    /\ task' = [task EXCEPT ![url] = "settled"]
    /\ UNCHANGED <<startUrl, maxPages, maxDepth, site, visited, toVisit, discoveredUrls,
                   pagesProcessed, pc, currentBatch, fetchLog, completed>>
    /\ UNCHANGED <<redirectVars, filterVars, sitemapVars>>

\* the timer of line 224 fires: the task ends
DelayElapsed(url) ==
    /\ pc = "await"
    /\ url \in DOMAIN task /\ task[url] = "delay"
    /\ task' = [task EXCEPT ![url] = "settled"]
    /\ completed' = completed \cup {url}
    /\ UNCHANGED <<startUrl, maxPages, maxDepth, site, visited, toVisit, discoveredUrls,
                   errors, pagesProcessed, pc, currentBatch, fetchLog>>
    /\ UNCHANGED <<redirectVars, filterVars, sitemapVars>>

\* when Promise.all(promises) is fulfilled: no task rejects, so when all are
\* (variant first: fulfilled as soon as one task has ended)
AnySettled == \E url \in DOMAIN task : task[url] = "settled"

AllSettled == \A url \in DOMAIN task : task[url] = "settled"

\* await Promise.all(promises) returns and the loop goes back to its condition
BatchSettled ==
    /\ pc = "await"
    /\ AllSettled
    /\ pc' = "loop"
    /\ UNCHANGED <<startUrl, maxPages, maxDepth, site, visited, toVisit, discoveredUrls,
                   errors, pagesProcessed, currentBatch, task, fetchLog, completed>>
    /\ UNCHANGED <<redirectVars, filterVars, sitemapVars>>

\* the loop ends and crawlWebsite returns its result
Return ==
    /\ pc = "loop"
    /\ ~LoopCondition
    /\ pc' = "done"
    /\ UNCHANGED <<startUrl, maxPages, maxDepth, site, visited, toVisit, discoveredUrls,
                   errors, pagesProcessed, currentBatch, task, fetchLog, completed>>
    /\ UNCHANGED <<redirectVars, filterVars, sitemapVars>>

Next ==
    \/ StartBatch
    \/ \E url \in DOMAIN task : FetchResolve(url)
    \/ \E url \in DOMAIN task : FetchReject(url)
    \/ \E url \in DOMAIN task : DelayElapsed(url)
    \/ BatchSettled
    \/ Return

\* crawls of the small sites
Spec == Init /\ [][Next]_vars

\* main() before it calls crawlWebsite: no crawl state exists yet
InitMain ==
    /\ startUrl = <<>> /\ maxPages = 0 /\ maxDepth = 0 /\ site = <<>>
    /\ visited = {} /\ toVisit = <<>> /\ discoveredUrls = {} /\ errors = <<>>
    /\ pagesProcessed = 0 /\ pc = "main" /\ currentBatch = <<>> /\ task = <<>>
    /\ fetchLog = <<>> /\ completed = {}
    /\ RedirectIdle /\ FilterIdle /\ SitemapIdle

\* main() calls crawlWebsite(websiteUrl, maxPages, maxDepth), which runs its
\* lines 183-190
CallCrawl ==
    /\ pc = "main"
    /\ \E seed \in Seeds, pages \in 0..MaxPagesBound, depth \in 0..MaxDepthBound,
          server \in Sites :
          /\ startUrl' = seed /\ maxPages' = pages /\ maxDepth' = depth /\ site' = server
          /\ toVisit' = <<seed>>
    /\ pc' = "loop"
    /\ UNCHANGED <<visited, discoveredUrls, errors, pagesProcessed, currentBatch, task,
                   fetchLog, completed>>
    /\ UNCHANGED <<redirectVars, filterVars, sitemapVars>>

NextMain == CallCrawl \/ Next

\* The crawls of the small sites, from the call on, when the event loop runs
\* every continuation that is ready and the server settles every request: a
\* step is taken whenever one can be.
SpecFair == InitMain /\ [][NextMain]_vars /\ WF_vars(NextMain)

\* crawls of the wide site, whose hub fills more than one batch
InitWide ==
    \E pages \in 0..MaxPagesBound :
        CrawlStart(<<"https:", "/", "/", "example.com">>, pages, MaxDepthBound, WideSite)

SpecWide == InitWide /\ [][Next]_vars

----------------------------------------------------------------------------
(* audit-redirect.js *)

RedirectBaseUrl == <<"https:", "/", "/", "www.condo-world.com">>

\* the paths of the redirect sheet, and the rows (old, new) it may hold
SheetPaths == {<<"/", "o">>, <<"/", "n">>}
SheetRows == [from : SheetPaths, to : SheetPaths]

\* what the server may answer to the first request and to the followed one
ManualStatuses == {200, 301, 302, 307, 308, 404}
FinalUrls == {RedirectBaseUrl \o p : p \in SheetPaths \cup {<<"/", "x">>}}
FinalStatuses == {200, 404}

\* no crawl runs during a redirect audit
CrawlIdle ==
    /\ startUrl = <<>> /\ maxPages = 0 /\ maxDepth = 0 /\ site = <<>>
    /\ visited = {} /\ toVisit = <<>> /\ discoveredUrls = {} /\ errors = <<>>
    /\ pagesProcessed = 0 /\ pc = "idle" /\ currentBatch = <<>> /\ task = <<>>
    /\ fetchLog = <<>> /\ completed = {}

\* the state when the CSV stream ends: redirects holds the rows of the sheet
InitRedirect ==
    /\ \E n \in 1..MaxRows : redirects \in [1..n -> SheetRows]
    /\ failedRedirects = <<>>
    /\ rpc = "manual"
    /\ rowIdx = 1
    /\ firstStatus = 0
    /\ observed = <<>>
    /\ CrawlIdle /\ FilterIdle /\ SitemapIdle

isRedirectStatus(status) == status = 301 \/ status = 302 \/ status = 308 \/ status = 307

\* the catch block of checkRedirect
FailedWithError(row) ==
    [from |-> row.from, expected |-> row.to, actual |-> "Error", status |-> "Error"]

\* what the server did for a row: whether the old path redirected, and where
\* the followed request ended (Null when there was none)
Observation(redirected, location) == [redirected |-> redirected, location |-> location]

\* the for loop of auditRedirects moves to the next row, or ends
NextRow ==
    /\ rowIdx' = rowIdx + 1
    /\ rpc' = IF rowIdx + 1 > Len(redirects) THEN "write" ELSE "manual"
    /\ firstStatus' = 0

\* checkRedirect: the request with redirect: 'manual' throws
ManualFetchThrows ==
    /\ rpc = "manual"
    /\ failedRedirects' = Append(failedRedirects, FailedWithError(redirects[rowIdx]))
    /\ observed' = Append(observed, Observation(FALSE, Null))
    /\ NextRow
    /\ UNCHANGED <<redirects, crawlVars, filterVars, sitemapVars>>

\* checkRedirect: the request with redirect: 'manual' is answered with status
ManualFetchReturns(status) ==
    /\ rpc = "manual"
    /\ LET row == redirects[rowIdx] IN
       IF isRedirectStatus(status)
       THEN /\ rpc' = "follow"
            /\ firstStatus' = status
            /\ UNCHANGED <<failedRedirects, observed, rowIdx>>
       ELSE /\ failedRedirects' =
                 IF status = 200 THEN failedRedirects
                 ELSE Append(failedRedirects,
                             [from |-> row.from, expected |-> row.to,
                              actual |-> <<>>, status |-> status])
            /\ observed' = Append(observed, Observation(FALSE, Null))
            /\ NextRow
    /\ UNCHANGED <<redirects, crawlVars, filterVars, sitemapVars>>

\* checkRedirect: the request with redirect: 'follow' throws
FollowFetchThrows ==
    /\ rpc = "follow"
    /\ failedRedirects' = Append(failedRedirects, FailedWithError(redirects[rowIdx]))
    /\ observed' = Append(observed, Observation(TRUE, Null))
    /\ NextRow
    /\ UNCHANGED <<redirects, crawlVars, filterVars, sitemapVars>>

\* checkRedirect: the request with redirect: 'follow' ends at followLocation
FollowFetchReturns(followLocation, followStatus) ==
    /\ rpc = "follow"
    /\ LET row == redirects[rowIdx] IN
       failedRedirects' =
           IF followLocation = RedirectBaseUrl \o row.to \/ followStatus = 200
           THEN failedRedirects
           ELSE Append(failedRedirects,
                       [from |-> row.from, expected |-> row.to,
                        actual |-> followLocation, status |-> followStatus])
    /\ observed' = Append(observed, Observation(TRUE, followLocation))
    /\ NextRow
    /\ UNCHANGED <<redirects, crawlVars, filterVars, sitemapVars>>

\* auditRedirects has returned: the failures are written out
writeFailuresToCSV ==
    /\ rpc = "write"
    /\ rpc' = "written"
    /\ UNCHANGED <<redirects, failedRedirects, rowIdx, firstStatus, observed, crawlVars,
                   filterVars, sitemapVars>>

NextRedirect ==
    \/ ManualFetchThrows
    \/ \E status \in ManualStatuses : ManualFetchReturns(status)
    \/ FollowFetchThrows
    \/ \E followLocation \in FinalUrls, followStatus \in FinalStatuses :
          FollowFetchReturns(followLocation, followStatus)
    \/ writeFailuresToCSV

SpecRedirect == InitRedirect /\ [][NextRedirect]_vars

----------------------------------------------------------------------------
(* The claims about crawlWebsite *)

NoDuplicates(s) == \A i, j \in 1..Len(s) : s[i] = s[j] => i = j

ErrorUrls == {errors[i].url : i \in 1..Len(errors)}

\* the URLs extractUrls finds on the page fetchPage(url) returns
FoundOn(url) == Range(ExtractedUrls[fetchPage(url), startUrl])

\* C1: in a run of crawlWebsite no URL string is passed to fetchPage more than
\* once, and the number of fetches started equals the size of visited.
C1_NoUrlFetchedTwice ==
    /\ NoDuplicates(fetchLog)
    /\ Len(fetchLog) = Cardinality(visited)

\* a finished crawl of several batches that found a link to a visited URL
C1_Witness ==
    /\ pc = "done"
    /\ Len(fetchLog) >= 3
    /\ \E url \in completed : FoundOn(url) \cap visited # {}

\* C2: toVisit and visited are disjoint in every state; a URL enters toVisit
\* only if it is not in visited, and enters visited only on leaving toVisit.
C2_FrontierDisjointFromVisited ==
    /\ [](Range(toVisit) \cap visited = {})
    /\ [][/\ (Range(toVisit') \ Range(toVisit)) \cap visited = {}
          /\ (visited' \ visited) \subseteq Range(toVisit)
          /\ (visited' \ visited) \cap Range(toVisit') = {}]_vars

\* a batch in flight: one task has enqueued what it found, skipping a visited
\* URL its page links to, while another fetch is pending
C2_Witness ==
    /\ pc = "await"
    /\ toVisit # <<>>
    /\ \E u, v \in DOMAIN task :
          /\ task[u] = "delay" /\ task[v] = "fetching"
          /\ FoundOn(u) \cap visited # {}

\* C3, as stated: no URL is added to the frontier while a fetch of the batch
\* is still pending.
C3_AdditionsOnlyBetweenBatches ==
    [][Range(toVisit') \ Range(toVisit) # {}
          => \A url \in DOMAIN task' : task'[url] # "fetching"]_vars

\* C3, amended: visited changes only when a batch starts, before any of its
\* fetches resolves; the frontier loses URLs only when a batch starts and gains
\* URLs only in the step of a task whose own fetch has just resolved, which
\* appends URLs found on that task's page (other fetches may be pending).
C3_AdditionsByTheResolvedTask ==
    [][/\ visited' # visited =>
             /\ pc = "loop" /\ pc' = "await"
             /\ visited' \ visited = Range(currentBatch')
       /\ toVisit' # toVisit =>
             \/ /\ pc = "loop" /\ pc' = "await"
                /\ toVisit = currentBatch' \o toVisit'
             \/ \E url \in DOMAIN task :
                   /\ task[url] = "fetching" /\ task'[url] = "delay"
                   /\ Len(toVisit') > Len(toVisit)
                   /\ SubSeq(toVisit', 1, Len(toVisit)) = toVisit
                   /\ Range(toVisit') \ Range(toVisit) \subseteq FoundOn(url)]_vars

\* a task has added URLs to the frontier while another fetch of its batch is pending
C3_Witness ==
    /\ pc = "await"
    /\ \E u, v \in DOMAIN task :
          /\ task[u] = "delay" /\ task[v] = "fetching"
          /\ Range(toVisit) \cap FoundOn(u) # {}

\* C4: the page budget is tested only before a batch is sliced off: no batch
\* starts once pagesProcessed >= maxPages, and for maxPages >= 1 the count
\* never exceeds maxPages + BatchSize - 1.
C4_BudgetOvershootBounded ==
    /\ [](maxPages >= 1 => pagesProcessed <= maxPages + BatchSize - 1)
    /\ [][pagesProcessed' # pagesProcessed
             => pc = "loop" /\ pc' = "await" /\ pagesProcessed < maxPages]_vars

\* a full batch started one page short of the budget: the bound is met
C4_Witness ==
    /\ maxPages >= 1
    /\ Len(currentBatch) = BatchSize
    /\ pagesProcessed = maxPages + BatchSize - 1

\* C5: a failing fetch leaves exactly one {url, error} entry for its URL, the
\* URL stays visited and counted, the other tasks of the batch run to their
\* end, and the loop ends only by its own condition.
C5_FailuresAreIsolated ==
    /\ NoDuplicates([i \in 1..Len(errors) |-> errors[i].url])
    /\ \A i \in 1..Len(errors) :
          /\ errors[i].url \in visited
          /\ errors[i].error = FetchError(errors[i].url)
    /\ pagesProcessed = Cardinality(visited)
    /\ pc \in {"loop", "done"} =>
          \A url \in visited :
             IF FetchError(url) # Null
             THEN url \in ErrorUrls /\ url \notin completed
             ELSE url \in completed /\ url \notin ErrorUrls
    /\ pc = "done" => (toVisit = <<>> \/ pagesProcessed >= maxPages)

\* a crawl that went on after a failure: a batch in which one fetch failed and
\* another task ran to its end, followed by a further batch
C5_Witness ==
    /\ pc = "await"
    /\ \E i, j \in 1..Len(fetchLog) :
          /\ i < j /\ j + 1 < Len(fetchLog)
          /\ fetchLog[i] \in ErrorUrls /\ fetchLog[j] \in completed
          /\ fetchLog[i] \notin Range(currentBatch)
          /\ fetchLog[j] \notin Range(currentBatch)

\* C6: with maxDepth = 0 only the seed is fetched, nothing found is added to
\* toVisit, and pagesProcessed ends at 1 when maxPages >= 1.
C6_DepthZeroFetchesOnlyTheSeed ==
    maxDepth = 0 =>
        /\ Range(toVisit) \subseteq {startUrl}
        /\ Range(fetchLog) \subseteq {startUrl}
        /\ (pc = "done" /\ maxPages >= 1) => pagesProcessed = 1

\* a finished crawl of depth 0 whose seed page held links of the site
C6_Witness ==
    /\ maxDepth = 0 /\ pc = "done"
    /\ pagesProcessed = 1
    /\ discoveredUrls # {}

\* C7: fetches are started, and the loop condition is evaluated again, only
\* when every task of the batch before has settled, by success or by failure.
C7_BatchesAreSequential ==
    /\ [](pc \in {"loop", "done"} => \A url \in DOMAIN task : task[url] = "settled")
    /\ [][(fetchLog' # fetchLog \/ (pc = "await" /\ pc' # "await"))
             => \A url \in DOMAIN task : task[url] = "settled"]_vars

\* a batch of several tasks starts after a batch in which a fetch failed and
\* another succeeded
C7_Witness ==
    /\ pc = "await"
    /\ Len(currentBatch) >= 2
    /\ \A url \in DOMAIN task : task[url] = "fetching"
    /\ ErrorUrls # {} /\ completed # {}
    /\ Len(fetchLog) >= Len(currentBatch) + 3

\* the strings the five patterns capture on the page fetchPage(url) returns
CapturedOn(url) ==
    LET html == fetchPage(url)
    IN Range(html.href \o html.src \o html.action \o html.js \o html.data)

\* C9: every member of discoveredUrls has the host name of the seed and passes
\* isValidUrl, no URL of another host is in discoveredUrls or toVisit, and
\* discoveredUrls only grows.
C9_DiscoveredAreSameHostAndValid ==
    /\ [](/\ \A url \in discoveredUrls :
                /\ UrlParses(url)
                /\ NewURL(url).hostname = NewURL(startUrl).hostname
                /\ isValidUrl(url)
          /\ \A url \in Range(toVisit) :
                UrlParses(url) /\ NewURL(url).hostname = NewURL(startUrl).hostname)
    /\ [][discoveredUrls \subseteq discoveredUrls']_vars

\* a page was extracted that links to another host and holds a same-host path
\* the heuristic rejects, and something of it was kept
C9_Witness ==
    \E url \in completed :
        /\ FoundOn(url) # {}
        /\ FoundOn(url) \subseteq discoveredUrls
        /\ \E raw \in CapturedOn(url) :
              LET n == normalizeUrl(raw, baseUrl)
              IN n # Null /\ NewURL(n).hostname # baseUrl.hostname
        /\ \E raw \in CapturedOn(url) :
              LET n == normalizeUrl(raw, baseUrl)
              IN n # Null /\ NewURL(n).hostname = baseUrl.hostname /\ ~isValidUrl(n)

\* C10: when every step that can be taken eventually is, crawlWebsite returns;
\* when it returns toVisit is empty or pagesProcessed >= maxPages; every batch
\* that starts raises pagesProcessed by at least 1.
C10_CrawlTerminates ==
    /\ <>(pc = "done")
    /\ [](pc = "done" => (toVisit = <<>> \/ pagesProcessed >= maxPages))
    /\ [][(pc = "loop" /\ pc' = "await") => pagesProcessed' >= pagesProcessed + 1]_vars

\* a crawl of a cyclic site has returned with its frontier exhausted below the
\* budget: a page it fetched links to itself or to a page fetched before it
C10_Witness ==
    /\ pc = "done"
    /\ toVisit = <<>> /\ pagesProcessed < maxPages
    /\ \E i, j \in 1..Len(fetchLog) :
          /\ i <= j /\ j >= 2
          /\ fetchLog[j] \in completed
          /\ fetchLog[i] \in FoundOn(fetchLog[j])

----------------------------------------------------------------------------
(* The claim about the redirect auditor *)

\* the rows among the first k that did not redirect to baseUrl + new
RECURSIVE WrongRows(_)
WrongRows(k) ==
    IF k = 0 THEN <<>>
    ELSE LET row == redirects[k]
             right == /\ observed[k].redirected
                      /\ observed[k].location = RedirectBaseUrl \o row.to
         IN IF right THEN WrongRows(k - 1)
            ELSE Append(WrongRows(k - 1), <<row.from, row.to>>)

\* C8: a row passes only when its old path redirects and the final destination
\* is baseUrl + new: failedRedirects holds, once each and in order, exactly the
\* rows checked so far that did not redirect to the expected destination.
C8_FailuresAreTheWrongRedirects ==
    [i \in 1..Len(failedRedirects) |->
        <<failedRedirects[i].from, failedRedirects[i].expected>>]
      = WrongRows(Len(observed))

----------------------------------------------------------------------------
(* crawl-urls.mjs: one candidate path through isValidUrl and, when it is kept, *)
(* through cleanPathname and isValidPathname                                  *)

HexChars == {"0", "1", "2", "3", "4", "5", "6", "7", "8", "9",
             "A", "B", "C", "D", "E", "F", "a", "b", "c", "d", "e", "f"}

HexValue(c) ==
    CASE c = "0" -> 0 [] c = "1" -> 1 [] c = "2" -> 2 [] c = "3" -> 3 [] c = "4" -> 4
      [] c = "5" -> 5 [] c = "6" -> 6 [] c = "7" -> 7 [] c = "8" -> 8 [] c = "9" -> 9
      [] c \in {"A", "a"} -> 10 [] c \in {"B", "b"} -> 11 [] c \in {"C", "c"} -> 12
      [] c \in {"D", "d"} -> 13 [] c \in {"E", "e"} -> 14 [] c \in {"F", "f"} -> 15

\* the character of an ASCII code; the paths of the model hold the escapes
\* %20 %22 %25 %3C %3E %52 %55 only
AsciiChar(code) ==
    CASE code = 32 -> " " [] code = 34 -> "\"" [] code = 37 -> "%"
      [] code = 60 -> "<" [] code = 62 -> ">" [] code = 82 -> "R" [] code = 85 -> "U"
      [] OTHER -> "?"

\* whether decodeURIComponent(s) returns: every '%' starts an escape of two hex
\* digits, and the escape is an ASCII code (a lone byte >= 0x80 is no UTF-8)
RECURSIVE DecodeReturns(_)
DecodeReturns(s) ==
    IF s = <<>> THEN TRUE
    ELSE IF Head(s) # "%" THEN DecodeReturns(Tail(s))
    ELSE /\ Len(s) >= 3
         /\ s[2] \in HexChars /\ s[3] \in HexChars
         /\ 16 * HexValue(s[2]) + HexValue(s[3]) < 128
         /\ DecodeReturns(SubSeq(s, 4, Len(s)))

\* decodeURIComponent(s), for s with DecodeReturns(s)
RECURSIVE decodeURIComponent(_)
decodeURIComponent(s) ==
    IF s = <<>> THEN <<>>
    ELSE IF Head(s) # "%" THEN <<Head(s)>> \o decodeURIComponent(Tail(s))
    ELSE <<AsciiChar(16 * HexValue(s[2]) + HexValue(s[3]))>>
            \o decodeURIComponent(SubSeq(s, 4, Len(s)))

\* s.split(sep)[0]
RECURSIVE BeforeFirst(_, _)
BeforeFirst(s, sep) ==
    IF s = <<>> \/ Head(s) = sep THEN <<>>
    ELSE <<Head(s)>> \o BeforeFirst(Tail(s), sep)

\* Clean and validate pathname
\* (variant first: the pathname is not decoded)
cleanPathnameUndecoded(pathname) ==
    LET cut == BeforeFirst(BeforeFirst(pathname, "?"), "#")
    IN IF StartsWith(cut, <<"/">>) THEN cut ELSE <<"/">> \o cut

cleanPathname(pathname) ==
    LET decoded == IF DecodeReturns(pathname) THEN decodeURIComponent(pathname)
                   ELSE pathname
        cut == BeforeFirst(BeforeFirst(decoded, "?"), "#")
    IN IF StartsWith(cut, <<"/">>) THEN cut ELSE <<"/">> \o cut

\* pathname.match(/^\/[^\/]*X/) for a character class X
LeadingSegmentHas(pathname, class) ==
    /\ Len(pathname) >= 1 /\ pathname[1] = "/"
    /\ \E i \in 2..Len(pathname) :
          /\ pathname[i] \in class
          /\ \A j \in 2..(i - 1) : pathname[j] # "/"

isValidPathname(pathname) ==
    IF pathname = <<>> \/ pathname = <<"/">> THEN TRUE
    ELSE
        /\ ~(\/ Includes(pathname, <<"%", "3", "E">>)
             \/ Includes(pathname, <<"%", "3", "C">>)
             \/ Includes(pathname, <<"%", "2", "0">>))
        /\ ~(Includes(pathname, <<"<">>) \/ Includes(pathname, <<">">>))
        /\ ~LeadingSegmentHas(pathname, {"<", ">"})
        /\ ~(\/ Includes(pathname, <<"c", "l", "a", "s", "s", "=">>)
             \/ Includes(pathname, <<"i", "d", "=">>)
             \/ Includes(pathname, <<"s", "t", "y", "l", "e", "=">>))
        /\ ~(Len(pathname) > MaxPathnameLength)
        /\ ~Includes(pathname, <<"%", "%">>)
        /\ ~(LeadingSegmentHas(pathname, {"="}) \/ LeadingSegmentHas(pathname, {" "}))

\* the candidate paths: the three of the specification, the root, and every
\* path of up to MaxCandidateLen characters of FilterAlphabet after its '/'
FooScript ==
    <<"/", "f", "o", "o", "%", "3", "C", "s", "c", "r", "i", "p", "t", "%", "3", "E">>
NormalPage ==
    <<"/", "n", "o", "r", "m", "a", "l", "/", "p", "a", "g", "e", ".", "h", "t", "m", "l">>
EncodedPercents == <<"/", "a", "%", "2", "5", "%", "2", "5", "b">>
FilterAlphabet == {"/", "x", "%", "2", "5", "<", "="}
Candidates ==
    {FooScript, NormalPage, EncodedPercents}
      \cup {<<"/">> \o w : w \in UNION {[1..n -> FilterAlphabet] : n \in 0..MaxCandidateLen}}

\* the seed of the crawl the candidate is found in
FilterBase == NewURL(<<"https:", "/", "/", "example.com">>)

\* the candidate as extractUrls holds it after normalizeUrl: the href of an
\* absolute link to the candidate path on the host of the seed
CandidateUrl == normalizeUrl(Origin(FilterBase) \o candidate, FilterBase)

InitFilter ==
    /\ candidate \in Candidates
    /\ fpc = "found"
    /\ accepted = FALSE /\ cleaned = <<>> /\ keptPath = FALSE
    /\ CrawlIdle /\ RedirectIdle /\ SitemapIdle

\* extractUrls, lines 66-67: the candidate is kept when it passes the tests
CheckCandidate ==
    /\ fpc = "found"
    /\ accepted' = (/\ CandidateUrl # Null
                    /\ isSameDomain(CandidateUrl, FilterBase)
                    /\ isValidUrl(CandidateUrl))
    /\ fpc' = "checked"
    /\ UNCHANGED <<candidate, cleaned, keptPath, crawlVars, redirectVars, sitemapVars>>

\* extractPathnames, for a URL that was kept: its pathname is cleaned and tested
ReducePathname ==
    /\ fpc = "checked" /\ accepted
    /\ LET pathname == cleanPathname(NewURL(CandidateUrl).pathname)
       IN /\ cleaned' = pathname
          /\ keptPath' = isValidPathname(pathname)
    /\ fpc' = "reduced"
    /\ UNCHANGED <<candidate, accepted, crawlVars, redirectVars, sitemapVars>>

NextFilter == CheckCandidate \/ ReducePathname

SpecFilter == InitFilter /\ [][NextFilter]_vars

\* C11, as stated: isValidUrl rejects "/foo%3Cscript%3E", accepts
\* "/normal/page.html", rejects "/a%25%25b", rejects every path with two
\* consecutive '%' and accepts "/".
C11_ValidityExamples ==
    fpc \in {"checked", "reduced"} =>
        /\ candidate = FooScript => ~accepted
        /\ candidate = NormalPage => accepted
        /\ candidate = EncodedPercents => ~accepted
        /\ Includes(candidate, <<"%", "%">>) => ~accepted
        /\ candidate = <<"/">> => accepted

\* C11, amended: isValidUrl rejects "/foo%3Cscript%3E", accepts
\* "/normal/page.html", rejects every path with two consecutive '%' and accepts
\* "/"; it accepts "/a%25%25b", which holds no two consecutive '%', and that
\* path is dropped later: cleanPathname decodes it to "/a%%b", which
\* isValidPathname rejects.
C11_ValidityExamplesAmended ==
    /\ fpc \in {"checked", "reduced"} =>
          /\ candidate = FooScript => ~accepted
          /\ candidate = NormalPage => accepted
          /\ candidate = EncodedPercents => accepted
          /\ Includes(candidate, <<"%", "%">>) => ~accepted
          /\ candidate = <<"/">> => accepted
    /\ (fpc = "reduced" /\ candidate = EncodedPercents) =>
          /\ cleaned = <<"/", "a", "%", "%", "b">>
          /\ ~keptPath

\* "/a%25%25b" has passed isValidUrl and has been through the pathname filter
C11_Witness ==
    /\ fpc = "reduced"
    /\ candidate = EncodedPercents
    /\ accepted

----------------------------------------------------------------------------
(* extract-urls.mjs: collectAllUrls, the walk over the sitemaps of a site     *)

\* baseUrl, as main passes it after normalizeUrl
SitemapBaseUrl == <<"https:", "/", "/", "example.com">>

\* Fallback to common sitemap locations if robots.txt has none
fallbackSitemaps ==
    << SitemapBaseUrl \o <<"/", "sitemap.xml">>,
       SitemapBaseUrl \o <<"/", "sitemap_index.xml">>,
       SitemapBaseUrl \o <<"/", "sitemap-index.xml">> >>

\* the sitemap URLs of the site
SitemapUrlSet == Range(fallbackSitemaps)

\* String.prototype.trim
RECURSIVE TrimStart(_)
TrimStart(s) == IF s # <<>> /\ Head(s) = " " THEN TrimStart(Tail(s)) ELSE s
RECURSIVE TrimEnd(_)
TrimEnd(s) ==
    IF s # <<>> /\ s[Len(s)] = " " THEN TrimEnd(SubSeq(s, 1, Len(s) - 1)) ELSE s
Trim(s) == TrimStart(TrimEnd(s))

\* Extract URLs from XML sitemap: the text of every <loc>, trimmed
extractLocs(xml) == [i \in 1..Len(xml.locs) |-> Trim(xml.locs[i])]

\* the text of a <loc> or of a Sitemap: line that holds only a blank, and one
\* that holds a sitemap URL between blanks
Blank == <<" ">>
Padded(url) == <<" ">> \o url \o <<" ">>

\* the pages the urlset files list
SitemapPageA == SitemapBaseUrl \o <<"/", "a">>
SitemapPageB == SitemapBaseUrl \o <<"/", "b">>

\* what the server answers for a sitemap URL: not ok (fetchBuf throws), a
\* sitemap index (every list of up to MaxLocs sitemap URLs, and one whose
\* entries need trimming), or a urlset of page URLs
SitemapFailure == [ok |-> FALSE, sitemapindex |-> FALSE, locs |-> <<>>]
SitemapIndexes ==
    {[ok |-> TRUE, sitemapindex |-> TRUE, locs |-> l] :
        l \in UNION {[1..n -> SitemapUrlSet] : n \in 0..MaxLocs}
                \cup {<<Blank, Padded(fallbackSitemaps[1])>>}}
SitemapUrlsets ==
    {[ok |-> TRUE, sitemapindex |-> FALSE, locs |-> l] :
        l \in {<<SitemapPageA>>, <<SitemapPageA, SitemapPageB>>}}
SitemapResponses == {SitemapFailure} \cup SitemapIndexes \cup SitemapUrlsets

\* the Sitemap: lines of robots.txt, as the regular expression captures them;
\* none when robots.txt cannot be fetched or names no sitemap
RobotsLines ==
    { <<>>,
      <<fallbackSitemaps[1]>>,
      <<fallbackSitemaps[2], Blank, fallbackSitemaps[2]>>,
      <<Padded(fallbackSitemaps[3]), fallbackSitemaps[1]>> }

\* Get sitemap URLs from robots.txt
getRobotsSitemaps(matches) ==
    LET lines == [i \in 1..Len(matches) |-> Trim(matches[i])]
    IN IF Len(lines) # 0 THEN lines ELSE fallbackSitemaps

\* collectAllUrls up to its loop
InitSitemap ==
    /\ sitemapSite \in [SitemapUrlSet -> SitemapResponses]
    /\ \E matches \in RobotsLines :
          /\ robotsSitemaps = getRobotsSitemaps(matches)
          /\ queue = getRobotsSitemaps(matches)
    /\ seenSitemaps = {} /\ urls = {} /\ processedCount = 0
    /\ spc = "loop" /\ sitemapUrl = <<>> /\ sitemapFetches = <<>>
    /\ CrawlIdle /\ RedirectIdle /\ FilterIdle

\* if (!sitemapUrl || seenSitemaps.has(sitemapUrl)) continue;
\* (variant first: only the empty URL is skipped)
SkipsEmptyOnly(url) == url = <<>>

Skips(url) == url = <<>> \/ url \in seenSitemaps

\* queue.shift() of a URL the walk skips
SkipSitemap ==
    /\ spc = "loop" /\ queue # <<>>
    /\ Skips(Head(queue))
    /\ queue' = Tail(queue)
    /\ UNCHANGED <<sitemapSite, robotsSitemaps, seenSitemaps, urls, processedCount, spc,
                   sitemapUrl, sitemapFetches>>
    /\ UNCHANGED <<crawlVars, redirectVars, filterVars>>

\* queue.shift() of a new URL: it is marked and counted, and fetchText is called
StartSitemap ==
    /\ spc = "loop" /\ queue # <<>>
    /\ ~Skips(Head(queue))
    /\ sitemapUrl' = Head(queue)
    /\ queue' = Tail(queue)
    /\ seenSitemaps' = seenSitemaps \cup {Head(queue)}
    /\ processedCount' = processedCount + 1
    /\ sitemapFetches' = Append(sitemapFetches, Head(queue))
    /\ spc' = "fetching"
    /\ UNCHANGED <<sitemapSite, robotsSitemaps, urls>>
    /\ UNCHANGED <<crawlVars, redirectVars, filterVars>>

\* fetchText throws: the catch block warns and continues
FetchTextRejects ==
    /\ spc = "fetching"
    /\ ~sitemapSite[sitemapUrl].ok
    /\ spc' = "loop"
    /\ UNCHANGED <<sitemapSite, robotsSitemaps, queue, seenSitemaps, urls, processedCount,
                   sitemapUrl, sitemapFetches>>
    /\ UNCHANGED <<crawlVars, redirectVars, filterVars>>

\* fetchText returns a sitemap index: its children are pushed
FetchTextResolvesIndex ==
    /\ spc = "fetching"
    /\ sitemapSite[sitemapUrl].ok /\ sitemapSite[sitemapUrl].sitemapindex
    /\ queue' = queue \o extractLocs(sitemapSite[sitemapUrl])
    /\ spc' = "loop"
    /\ UNCHANGED <<sitemapSite, robotsSitemaps, seenSitemaps, urls, processedCount,
                   sitemapUrl, sitemapFetches>>
    /\ UNCHANGED <<crawlVars, redirectVars, filterVars>>

\* fetchText returns a regular sitemap: its URLs are added
FetchTextResolvesUrlset ==
    /\ spc = "fetching"
    /\ sitemapSite[sitemapUrl].ok /\ ~sitemapSite[sitemapUrl].sitemapindex
    /\ urls' = urls \cup Range(extractLocs(sitemapSite[sitemapUrl]))
    /\ spc' = "loop"
    /\ UNCHANGED <<sitemapSite, robotsSitemaps, queue, seenSitemaps, processedCount,
                   sitemapUrl, sitemapFetches>>
    /\ UNCHANGED <<crawlVars, redirectVars, filterVars>>

\* while (queue.length) ends; the URLs are returned
ReturnUrls ==
    /\ spc = "loop" /\ queue = <<>>
    /\ spc' = "returned"
    /\ UNCHANGED <<sitemapSite, robotsSitemaps, queue, seenSitemaps, urls, processedCount,
                   sitemapUrl, sitemapFetches>>
    /\ UNCHANGED <<crawlVars, redirectVars, filterVars>>

NextSitemap ==
    \/ SkipSitemap
    \/ StartSitemap
    \/ FetchTextRejects
    \/ FetchTextResolvesIndex
    \/ FetchTextResolvesUrlset
    \/ ReturnUrls

SpecSitemap == InitSitemap /\ [][NextSitemap]_vars

\* the children a sitemap URL contributes: the entries of its index, when
\* the fetch succeeds and the file is an index
ChildSitemaps(url) ==
    IF sitemapSite[url].ok /\ sitemapSite[url].sitemapindex
    THEN Range(extractLocs(sitemapSite[url])) \ {<<>>}
    ELSE {}

RECURSIVE ReachableFrom(_)
ReachableFrom(S) ==
    LET T == S \cup UNION {ChildSitemaps(url) : url \in S}
    IN IF T = S THEN S ELSE ReachableFrom(T)

\* the sitemap URLs the walk can come to from the result of getRobotsSitemaps
ReachableSitemaps == ReachableFrom(Range(robotsSitemaps) \ {<<>>})

\* what is left of the walk: the queue, the URLs not yet seen (each can push
\* up to MaxLocs children), and the fetch in flight
WalkLeft ==
    Len(queue) + (MaxLocs + 1) * Cardinality(SitemapUrlSet \ seenSitemaps)
        + (IF spc = "fetching" THEN MaxLocs + 1 ELSE 0)

\* C12: in collectAllUrls no sitemap URL is fetched twice, on sites whose
\* indexes name each other or repeat a child too: the fetched URLs are those
\* of seenSitemaps, one fetch for each; a failed fetch does not end the walk,
\* which returns with an empty queue when every sitemap URL reachable from
\* the first queue has been fetched; and the loop ends, each step lowering
\* what is left of the walk.
C12_EachSitemapFetchedOnce ==
    /\ [](/\ NoDuplicates(sitemapFetches)
          /\ Range(sitemapFetches) = seenSitemaps
          /\ processedCount = Len(sitemapFetches)
          /\ spc = "returned" =>
                /\ queue = <<>>
                /\ seenSitemaps = ReachableSitemaps)
    /\ [][spc' = "returned" \/ WalkLeft' < WalkLeft]_vars

\* a walk has returned on a site where two indexes name each other, an index
\* repeats a child, and a fetch failed before the last one
C12_Witness ==
    /\ spc = "returned"
    /\ \E i \in 1..(Len(sitemapFetches) - 1) : ~sitemapSite[sitemapFetches[i]].ok
    /\ \E s, t \in seenSitemaps :
          s # t /\ s \in ChildSitemaps(t) /\ t \in ChildSitemaps(s)
    /\ \E s \in seenSitemaps :
          /\ sitemapSite[s].ok /\ sitemapSite[s].sitemapindex
          /\ ~NoDuplicates(extractLocs(sitemapSite[s]))

====
